---- MODULE Spec2Model ----
(***************************************************************************)
(* fastmlx: the request-orchestration layer of src/fastmlx/fastmlx.py.     *)
(*                                                                         *)
(* One server process runs one asyncio event loop.  Every handler is an    *)
(* `async def` coroutine; load_model is a plain synchronous method and the *)
(* critical sections of remove_model / get_available_models contain no     *)
(* await, so a handler runs from its first line to its return without      *)
(* another handler running in between.  A handler is therefore one action. *)
(* The only activity that spans several steps is a streamed response: the  *)
(* handler returns a StreamingResponse and the transport then pulls the    *)
(* generator one chunk at a time, other requests being served in between.  *)
(***************************************************************************)
EXTENDS Integers, Sequences, FiniteSets, TLC

VARIABLES
    models,       \* ModelProvider.models: the dict, as its insertion-ordered entries
    lock,         \* ModelProvider.lock: TRUE while some task holds the asyncio.Lock
    loads,        \* number of bundles the loader has produced (the serial of the last one)
    last,         \* the response of the handler that ran last
    stream,       \* the streamed response being delivered (one at a time)
    live,         \* history: names acquired successfully and not released since
    released,     \* history: names released successfully and not acquired since
    tasks,        \* the registry calls in flight, each with its position in the code
    running,      \* the task the event loop is running, 0 when it runs none
    prompt        \* a request at the tool branch of the plain-LM path, before and after

vars == <<models, lock, loads, last, stream, live, released, tasks, running, prompt>>

----------------------------------------------------------------------------
(* Bounds of the model *)

\* at most this many bundles are loaded
MaxLoads == 3
\* the generation engine yields at most this many fragments per stream
MaxFrags == 2
\* at most this many registry calls are in flight at once
MaxTasks == 2
\* a request at the tool branch holds at most this many messages
MaxMessages == 2

----------------------------------------------------------------------------
(* Text.  A string is the sequence of its characters; DQUOTE is the        *)
(* double-quote character.                                                 *)

DQUOTE == "DQUOTE"

\* a byte that is none of the characters used below
OTHERCHAR == "OTHERCHAR"

HexDigits == {"0", "1", "2", "3", "4", "5", "6", "7", "8", "9",
              "a", "b", "c", "d", "e", "f", "A", "B", "C", "D", "E", "F"}

\* the character a two-digit escape stands for
HexChar(h, l) ==
    CASE h = "2" /\ l = "2" -> DQUOTE
      [] h = "2" /\ l = "5" -> "%"
      [] h = "6" /\ l = "1" -> "a"
      [] h = "6" /\ l = "2" -> "b"
      [] h = "6" /\ l = "3" -> "c"
      [] h = "6" /\ l = "4" -> "d"
      [] OTHER -> OTHERCHAR

\* urllib.parse.unquote: every %XX with two hex digits becomes its
\* character, in one pass; anything else is kept as it is
RECURSIVE unquote(_)
unquote(s) ==
    IF s = <<>> THEN <<>>
    ELSE IF s[1] = "%" /\ Len(s) >= 3 /\ s[2] \in HexDigits /\ s[3] \in HexDigits
         THEN <<HexChar(s[2], s[3])>> \o unquote(SubSeq(s, 4, Len(s)))
         ELSE <<s[1]>> \o unquote(Tail(s))

RECURSIVE lstrip(_, _)
lstrip(s, ch) ==
    IF s # <<>> /\ s[1] = ch THEN lstrip(Tail(s), ch) ELSE s

RECURSIVE rstrip(_, _)
rstrip(s, ch) ==
    IF s # <<>> /\ s[Len(s)] = ch THEN rstrip(SubSeq(s, 1, Len(s) - 1), ch) ELSE s

\* str.strip(ch): every leading and every trailing ch removed
strip(s, ch) == rstrip(lstrip(s, ch), ch)

----------------------------------------------------------------------------
(* Python dict, insertion-ordered: a sequence of [key, value] entries.     *)

Keys(d) == [i \in 1..Len(d) |-> d[i].key]

KeySet(d) == {d[i].key : i \in 1..Len(d)}

Has(d, k) == \E i \in 1..Len(d) : d[i].key = k

Get(d, k) == d[CHOOSE i \in 1..Len(d) : d[i].key = k].value

\* d[k] = v: replaces the value in place when k is a key, appends otherwise
DictSet(d, k, v) ==
    IF Has(d, k)
    THEN [i \in 1..Len(d) |-> IF d[i].key = k THEN [key |-> k, value |-> v] ELSE d[i]]
    ELSE Append(d, [key |-> k, value |-> v])

\* del d[k]
DictDel(d, k) == SelectSeq(d, LAMBDA e : e.key # k)

\* how many entries carry key k
Count(d, k) == Cardinality({i \in 1..Len(d) : d[i].key = k})

NoDuplicates(s) == \A i, j \in 1..Len(s) : s[i] = s[j] => i = j

----------------------------------------------------------------------------
(* The external collaborators of load_model.                               *)

\* the model names clients ask for
ModelNames == {<<"a">>, <<"b">>, <<"c">>}

\* load_config(model_name)["model_type"]: what the model's config declares
ConfigModelType(name) ==
    CASE name = <<"a">> -> "llava"
      [] name = <<"b">> -> "bert"
      [] name = <<"d">> -> "llava-qwen2"
      [] name = <<"e">> -> "unknown_arch"
      [] name = <<"f">> -> "bunny-llama"
      [] OTHER -> "phi"

\* MODEL_REMAPPING: alias -> canonical model type
MODEL_REMAPPING == [alias \in {"llava-qwen2", "bunny-llama"} |-> "llava_bunny"]

\* MODEL_REMAPPING.get(t, t)
Remap(t) == IF t \in DOMAIN MODEL_REMAPPING THEN MODEL_REMAPPING[t] ELSE t

\* MODELS["vlm"]
MODELS_vlm == {"llava", "llava_bunny", "paligemma"}

\* MODELS["embeddings"]: entries are matched against model_type + ".py"
MODELS_embeddings == {<<"bert", ".py">>, <<"xlm_roberta", ".py">>}

\* which of the three loaders load_model dispatches to
LoaderKind(configType) ==
    LET model_type == Remap(configType) IN
    IF model_type \in MODELS_vlm THEN "vlm"
    ELSE IF <<model_type, ".py">> \in MODELS_embeddings THEN "embeddings"
    ELSE "lm"

\* what can happen in one cache-miss load: success, load_config raising,
\* or the kind-specific loader raising
LoaderOutcomes == {"ok", "config_fails", "loader_fails"}

\* the message of the exception the loader raises
LoaderMessage(outcome) ==
    IF outcome = "config_fails" THEN "Model not found" ELSE "Load failed"

NoBundle == [serial |-> 0, kind |-> "none", model_type |-> "none"]

NoException == "none"

\* the keys of the bundle each loader returns: the vision-language loader
\* gives a processor and an image processor, the other two a tokenizer
BundleKeys(kind) ==
    CASE kind = "vlm" -> {"model", "processor", "image_processor", "config"}
      [] kind \in {"lm", "embeddings"} -> {"model", "tokenizer", "config"}
      [] OTHER -> {}

\* load_model forgetting to store what it loaded
load_model_unstored(d, calls, name, outcome) ==
    IF Has(d, name)
    THEN [models |-> d, ret |-> Get(d, name), exc |-> NoException, invoked |-> FALSE]
    ELSE IF outcome = "ok"
         THEN [models |-> d,
               ret |-> [serial |-> calls + 1,
                        kind |-> LoaderKind(ConfigModelType(name)),
                        model_type |-> ConfigModelType(name)],
               exc |-> NoException, invoked |-> TRUE]
         ELSE [models |-> d, ret |-> NoBundle, exc |-> LoaderMessage(outcome),
               invoked |-> TRUE]

\* load_model without the membership test: every call loads again
load_model_reloading(d, calls, name, outcome) ==
    IF outcome = "ok"
    THEN LET bundle == [serial |-> calls + 1,
                        kind |-> LoaderKind(ConfigModelType(name)),
                        model_type |-> ConfigModelType(name)]
             d2 == DictSet(d, name, bundle)
         IN [models |-> d2, ret |-> Get(d2, name), exc |-> NoException,
             invoked |-> TRUE]
    ELSE [models |-> d, ret |-> NoBundle, exc |-> LoaderMessage(outcome),
          invoked |-> TRUE]

\* load_model reserving the entry before the loader has returned
load_model_partial(d, calls, name, outcome) ==
    IF Has(d, name)
    THEN [models |-> d, ret |-> Get(d, name), exc |-> NoException, invoked |-> FALSE]
    ELSE LET bundle == [serial |-> calls + 1,
                        kind |-> IF outcome = "ok"
                                 THEN LoaderKind(ConfigModelType(name)) ELSE "none",
                        model_type |-> ConfigModelType(name)]
             d2 == DictSet(d, name, bundle)
         IN IF outcome = "ok"
            THEN [models |-> d2, ret |-> Get(d2, name), exc |-> NoException,
                  invoked |-> TRUE]
            ELSE [models |-> d2, ret |-> NoBundle, exc |-> LoaderMessage(outcome),
                  invoked |-> TRUE]

\* ModelProvider.load_model(model_name), with the loader's outcome as input:
\* the dict afterwards, the value returned, the exception raised, and
\* whether the loader was invoked
load_model(d, calls, name, outcome) ==
    IF Has(d, name)
    THEN [models |-> d, ret |-> Get(d, name), exc |-> NoException, invoked |-> FALSE]
    ELSE IF outcome = "ok"
         THEN LET bundle == [serial |-> calls + 1,
                             kind |-> LoaderKind(ConfigModelType(name)),
                             model_type |-> ConfigModelType(name)]
                  d2 == DictSet(d, name, bundle)
              IN [models |-> d2, ret |-> Get(d2, name), exc |-> NoException,
                  invoked |-> TRUE]
         ELSE [models |-> d, ret |-> NoBundle, exc |-> LoaderMessage(outcome),
               invoked |-> TRUE]

\* remove_model answering True whatever it finds
remove_model_always_true(d, name) == [models |-> DictDel(d, name), ret |-> TRUE]

\* remove_model dropping the whole cache
remove_model_clearing(d, name) ==
    IF Has(d, name)
    THEN [models |-> <<>>, ret |-> TRUE]
    ELSE [models |-> d, ret |-> FALSE]

\* ModelProvider.remove_model(model_name), the body under the lock:
\* the dict afterwards and the boolean returned
remove_model(d, name) ==
    IF Has(d, name)
    THEN [models |-> DictDel(d, name), ret |-> TRUE]
    ELSE [models |-> d, ret |-> FALSE]

\* ModelProvider.get_available_models(), the body under the lock
get_available_models(d) == Keys(d)

----------------------------------------------------------------------------
(* HTTP responses.  `last` holds what the handler that ran last answered   *)
(* and what it did on the way.                                             *)

NoDetail == <<>>

NoName == <<>>

Response(op, arg, name, status, detail) ==
    [op |-> op,              \* the handler
     arg |-> arg,            \* the model_name argument as the handler received it
     name |-> name,          \* the name the handler passed to the ModelProvider
     status |-> status,      \* HTTP status code
     detail |-> detail,      \* the "detail" (or "message") of the body, if any
     exc |-> NoException,    \* the exception that escaped the handler, if any
     bundle |-> NoBundle,    \* what load_model returned
     loader |-> "not_called",\* what the external loader did in this request
     image_ref |-> FALSE,    \* whether the request's messages hold an image part
     removed |-> FALSE,      \* what ModelProvider.remove_model returned
     listing |-> <<>>,       \* what get_available_models returned
     templated |-> FALSE,    \* whether a chat template was applied
     generated |-> FALSE,    \* whether non-streamed generation was started
     extracted |-> FALSE,    \* whether handle_function_calls ran on the output
     streaming |-> FALSE,    \* whether a StreamingResponse was returned
     path |-> "none",        \* the branch of chat_completion the request took
     reads |-> {},           \* the keys the handler read from the bundle
     output |-> <<>>,        \* the text the generation engine returned
     content |-> <<>>,       \* choices[0].message.content of the body
     tool_calls |-> <<>>]    \* tool_calls of the body

\* raise HTTPException(status_code, detail)
HTTPException(r, status, detail) == [r EXCEPT !.status = status, !.detail = detail]

\* an exception that no handler code catches leaves the handler: the server
\* answers 500 "Internal Server Error", a body without any detail
Unhandled(r, exc) == [r EXCEPT !.status = 500, !.detail = NoDetail, !.exc = exc]

\* the part of a response that load_model's result fills in
WithLoad(r, ld, outcome) ==
    [r EXCEPT !.bundle = ld.ret,
              !.loader = IF ld.invoked THEN outcome ELSE "not_called"]

\* the loader is invoked only on a cache miss; the model explores at most
\* MaxLoads bundles
MayLoad(name) == Has(models, name) \/ loads < MaxLoads

\* what one call of load_model does to the provider's state and the history
Provider(ld, name) ==
    /\ models' = ld.models
    /\ loads' = IF ld.invoked /\ ld.exc = NoException THEN loads + 1 ELSE loads
    /\ live' = IF ld.exc = NoException THEN live \cup {name} ELSE live
    /\ released' = IF ld.exc = NoException THEN released \ {name} ELSE released
    /\ lock' = lock
    /\ UNCHANGED <<tasks, running, prompt>>

----------------------------------------------------------------------------
(* The model-management handlers.                                          *)

\* GET /v1/models.  `async with self.lock` takes the free lock without
\* suspending and gives it back before the handler returns.
list_models ==
    /\ ~lock
    /\ last' = [Response("list_models", NoName, NoName, 200, NoDetail)
                    EXCEPT !.listing = get_available_models(models)]
    /\ UNCHANGED <<models, lock, loads, stream, live, released, tasks, running, prompt>>

\* POST /v1/models?model_name=...
add_model(model_name, outcome) ==
    /\ MayLoad(model_name)
    /\ LET ld == load_model(models, loads, model_name, outcome)
           r == WithLoad(Response("add_model", model_name, model_name, 200,
                                  <<"Model ", model_name, " added successfully">>),
                         ld, outcome)
       IN /\ Provider(ld, model_name)
          /\ last' = IF ld.exc # NoException THEN Unhandled(r, ld.exc) ELSE r
    /\ UNCHANGED stream

\* the DELETE handler looking up the name as received
DecodedName_raw(model_name) == model_name

\* the name the DELETE handler looks up
DecodedName(model_name) == strip(unquote(model_name), DQUOTE)

\* a DELETE handler that closes the stream of the model it removes
remove_model_handler_interrupting(model_name) ==
    /\ ~lock
    /\ LET name == DecodedName(model_name)
           rm == remove_model(models, name)
           r == [Response("remove_model", model_name, name, 204, NoDetail)
                     EXCEPT !.removed = rm.ret]
       IN /\ models' = rm.models
          /\ live' = live \ {name}
          /\ released' = IF rm.ret THEN released \cup {name} ELSE released
          /\ last' = IF rm.ret THEN r
                     ELSE HTTPException(r, 404, <<"Model '", name, "' not found">>)
          /\ stream' = IF rm.ret /\ stream.state = "open" /\ stream.model = name
                       THEN [stream EXCEPT !.state = "cancelled"]
                       ELSE stream
    /\ UNCHANGED <<lock, loads, tasks, running, prompt>>

\* DELETE /v1/models?model_name=...  The lock is taken and given back within
\* the step, as in list_models.
remove_model_handler(model_name) ==
    /\ ~lock
    /\ LET name == DecodedName(model_name)
           rm == remove_model(models, name)
           r == [Response("remove_model", model_name, name, 204, NoDetail)
                     EXCEPT !.removed = rm.ret]
       IN /\ models' = rm.models
          /\ live' = live \ {name}
          /\ released' = IF rm.ret THEN released \cup {name} ELSE released
          /\ last' = IF rm.ret THEN r
                     ELSE HTTPException(r, 404, <<"Model '", name, "' not found">>)
    /\ UNCHANGED <<lock, loads, stream, tasks, running, prompt>>

----------------------------------------------------------------------------
(* Requests to POST /v1/chat/completions.                                  *)

None == "None"

StrContent(t) == [kind |-> "str", text |-> t, parts |-> <<>>]

ListContent(ps) == [kind |-> "list", text |-> None, parts |-> ps]

\* ChatCompletionContentPartParam: text and image_url default to None
\* the image_url field: None, or a dict given by its keys and its "url" value
NoDict == [isNone |-> TRUE, keys |-> {}, url |-> None]

Dict(keys, url) == [isNone |-> FALSE, keys |-> keys, url |-> url]

TextPart(t) == [type |-> "text", text |-> t, image_url |-> NoDict]

ImagePart(d) == [type |-> "image_url", text |-> None, image_url |-> d]

ChatMessage(role, content) == [role |-> role, content |-> content]

\* the message lists requests are drawn from
MessageLists ==
    { <<>>,
      <<ChatMessage("system", StrContent("Be brief")),
        ChatMessage("user", StrContent("Hello"))>>,
      <<ChatMessage("user", ListContent(<<TextPart("What"), TextPart("is this")>>))>>,
      <<ChatMessage("user", ListContent(<<TextPart(None)>>))>>,
      <<ChatMessage("user", ListContent(<<TextPart("What"),
                                          ImagePart(Dict({"url"}, "http://img"))>>))>>,
      <<ChatMessage("user", ListContent(<<ImagePart(Dict({"url"}, ""))>>))>> }

\* the inner loop of the VLM branch over the parts of one message:
\* text_content as the sequence of the pieces appended to it
RECURSIVE ScanParts(_, _)
ScanParts(parts, acc) ==
    IF parts = <<>> \/ acc.exc # NoException THEN acc
    ELSE LET part == parts[1] IN
         IF part.type = "text"
         THEN IF part.text = None
              THEN [acc EXCEPT !.exc = "TypeError"]
              ELSE ScanParts(Tail(parts),
                             [acc EXCEPT !.text_content = @ \o <<part.text, " ">>])
         ELSE IF part.image_url.isNone
              THEN [acc EXCEPT !.exc = "TypeError"]
              ELSE IF "url" \notin part.image_url.keys
                   THEN [acc EXCEPT !.exc = "KeyError"]
                   ELSE ScanParts(Tail(parts),
                                  [acc EXCEPT !.image_url = part.image_url.url])

\* the loop of the VLM branch over request.messages
RECURSIVE ScanMessages(_, _)
ScanMessages(msgs, acc) ==
    IF msgs = <<>> \/ acc.exc # NoException THEN acc
    ELSE LET msg == msgs[1] IN
         IF msg.content.kind = "str"
         THEN ScanMessages(Tail(msgs),
                  [acc EXCEPT !.chat_messages =
                       Append(@, [role |-> msg.role, content |-> <<msg.content.text>>])])
         ELSE LET inner == ScanParts(msg.content.parts,
                               [text_content |-> <<>>, image_url |-> acc.image_url,
                                exc |-> NoException])
              IN ScanMessages(Tail(msgs),
                  [acc EXCEPT !.image_url = inner.image_url,
                              !.exc = inner.exc,
                              !.chat_messages =
                                  Append(@, [role |-> msg.role,
                                             content |-> strip(inner.text_content, " ")])])

\* whether some message of the request holds a part of type image_url
HasImagePart(msgs) ==
    \E i \in 1..Len(msgs) :
        /\ msgs[i].content.kind = "list"
        /\ \E j \in 1..Len(msgs[i].content.parts) :
               msgs[i].content.parts[j].type = "image_url"

\* `not image_url`
Falsy(x) == x = None \/ x = ""

\* the import of the MLX libraries at module load succeeded
MLX_AVAILABLE == TRUE

\* "firefunction-v2" not in request.model
ToolPromptApplies(model_name) ==
    \A i \in 1..Len(model_name) : model_name[i] # "firefunction-v2"

\* whether get_tool_prompt is called, whose answer user_role then matters
ToolPromptSynthesized(model_name, msgs, tools) ==
    /\ tools /\ ToolPromptApplies(model_name)
    /\ msgs # <<>> /\ msgs[1].role # "system"

\* the tool branch of the plain-LM path: the messages handed on to the chat
\* template, or the exception raised on the way
ToolMessages(model_name, msgs, tools, user_role) ==
    IF ~(tools /\ ToolPromptApplies(model_name))
    THEN [messages |-> msgs, exc |-> NoException]
    ELSE IF msgs # <<>> /\ msgs[1].role = "system"
    THEN [messages |-> msgs, exc |-> NoException]
    ELSE IF msgs = <<>>
    THEN [messages |-> msgs, exc |-> "IndexError"]
    ELSE IF user_role
    THEN [messages |-> [msgs EXCEPT ![Len(msgs)].content = StrContent("tool prompt")],
          exc |-> NoException]
    ELSE [messages |-> <<ChatMessage("system", StrContent("tool prompt"))>> \o msgs,
          exc |-> NoException]

\* no request is at the tool branch
NoPrompt ==
    [model |-> NoName, messages |-> <<>>, tools |-> FALSE, done |-> FALSE,
     user_role |-> FALSE, chat_messages |-> <<>>, exc |-> NoException]

\* a request arriving at the tool branch
PromptRequest(model_name, msgs, tools) ==
    [NoPrompt EXCEPT !.model = model_name, !.messages = msgs, !.tools = tools]

\* lines 211 to 232 for the request held in `prompt`: the tool branch, then
\* chat_messages = [{"role": msg.role, "content": msg.content} ...]
tool_branch ==
    /\ ~prompt.done
    /\ \E user_role \in (IF ToolPromptSynthesized(prompt.model, prompt.messages,
                                                  prompt.tools)
                         THEN BOOLEAN ELSE {FALSE}) :
          LET tm == ToolMessages(prompt.model, prompt.messages, prompt.tools, user_role)
          IN prompt' = [prompt EXCEPT !.done = TRUE,
                                      !.user_role = user_role,
                                      !.chat_messages = tm.messages,
                                      !.exc = tm.exc]
    /\ UNCHANGED <<models, lock, loads, last, stream, live, released, tasks, running>>

----------------------------------------------------------------------------
(* The streamed response: the generator handed to StreamingResponse.       *)

Null == "null"

\* one "data: " line of the event stream: a chunk, or the sentinel
ChunkEvent(c) == [line |-> "chunk", chunk |-> <<c>>]

DONE == [line |-> "[DONE]", chunk |-> <<>>]

\* the fragments the generation engine yields, in order
FragmentSource == <<"Testing", " stream", " generation">>

Fragment(i) == FragmentSource[((i - 1) % Len(FragmentSource)) + 1]

\* values os.urandom / time.time can give
RandomIds == {"chatcmpl-1", "chatcmpl-2"}

Times == {1700000000, 1700000001}

Unset == "unset"

NoStream ==
    [state |-> "idle", model |-> NoName, bundle |-> NoBundle, id |-> Unset,
     created |-> 0, pos |-> 0, out |-> <<>>]

\* the handler returns StreamingResponse(generator): a generator runs nothing
\* until it is pulled for the first time.  The model follows the stream
\* opened last.
OpenStream(model_name, bundle) ==
    [state |-> "open", model |-> model_name, bundle |-> bundle, id |-> Unset,
     created |-> 0, pos |-> 0, out |-> <<>>]

\* the first pull starts the generator: the response's id and created
\* timestamp are assigned here, once
Started(st, id, t) ==
    IF st.id = Unset THEN [st EXCEPT !.id = id, !.created = t] ELSE st

\* an id drawn afresh for every chunk
ChunkId_fresh(st, id) == id

\* the id and the created timestamp a chunk carries, given the started stream
\* and what os.urandom / time.time give at the time of the pull
ChunkId(st, id) == st.id

ChunkCreated(st, t) == st.created

\* one ChatCompletionChunk for one fragment, as the "data: " line holds it
ContentChunk(id, created, model_name, token) ==
    [id |-> id,
     object |-> "chat.completion.chunk",
     created |-> created,
     model |-> model_name,
     choices |-> <<[index |-> 0,
                    delta |-> [role |-> "assistant", content |-> token],
                    finish_reason |-> Null]>>]

\* the events the generator yields when the engine hands it its next fragment
FragmentEvents(st, id, t) ==
    <<ChunkEvent(ContentChunk(ChunkId(st, id), ChunkCreated(st, t), st.model,
                              Fragment(st.pos + 1)))>>

\* a closing chunk with an empty delta and a finish reason
TerminalChunk(st) ==
    [id |-> st.id,
     object |-> "chat.completion.chunk",
     created |-> st.created,
     model |-> st.model,
     choices |-> <<[index |-> 0,
                    delta |-> [role |-> Null, content |-> Null],
                    finish_reason |-> "stop"]>>]

\* a generator closing with a terminal chunk before the sentinel
FinalEvents_terminal(st) == <<ChunkEvent(TerminalChunk(st)), DONE>>

\* the events the generator yields once the engine is exhausted
FinalEvents(st) == <<DONE>>

\* the transport pulls the next chunk: the engine yields one more fragment
stream_fragment ==
    /\ stream.state = "open"
    /\ stream.pos < MaxFrags
    /\ \E id \in RandomIds, t \in Times :
          LET st == Started(stream, id, t) IN
          stream' = [st EXCEPT !.pos = @ + 1, !.out = @ \o FragmentEvents(st, id, t)]
    /\ UNCHANGED <<models, lock, loads, last, live, released, tasks, running, prompt>>

\* the transport pulls the next chunk: the engine is exhausted
stream_finish ==
    /\ stream.state = "open"
    /\ stream' = [stream EXCEPT !.state = "done", !.out = @ \o FinalEvents(stream)]
    /\ UNCHANGED <<models, lock, loads, last, live, released, tasks, running, prompt>>

\* a generator that closes the stream with the sentinel when the engine fails
FailureEvents_done(st) == <<DONE>>

\* the events the generator yields when the engine raises: none, the
\* exception ends the generator
FailureEvents(st) == <<>>

\* the engine raises while the generator is being pulled
stream_failure ==
    /\ stream.state = "open"
    /\ stream' = [stream EXCEPT !.state = "failed", !.out = @ \o FailureEvents(stream)]
    /\ UNCHANGED <<models, lock, loads, last, live, released, tasks, running, prompt>>

\* an engine that runs to its end whether or not anyone reads
AfterDisconnect_draining(st) == [st EXCEPT !.state = "cancelled", !.pos = MaxFrags]

\* the stream once the consumer is gone: the generator is pulled on demand
\* only, so the engine has produced what was delivered and nothing more
AfterDisconnect(st) == [st EXCEPT !.state = "cancelled"]

\* the consumer disconnects: the generator is closed and never pulled again
stream_disconnect ==
    /\ stream.state = "open"
    /\ stream' = AfterDisconnect(stream)
    /\ UNCHANGED <<models, lock, loads, last, live, released, tasks, running, prompt>>

----------------------------------------------------------------------------
(* The tool-call extractor, handle_function_calls(output, request).  The   *)
(* generated text is the sequence of its pieces: words of prose, white     *)
(* space, and the blocks that carry tool calls in one of four conventions. *)

\* a text holds at most this many pieces
MaxPieces == 3

\* a JSON object: its members in order, each value a string or a number
Member(k, v, isStr) == [key |-> k, value |-> [str |-> isStr, v |-> v]]

DumpValue(x) == IF x.str THEN <<DQUOTE, x.v, DQUOTE>> ELSE <<x.v>>

RECURSIVE DumpMembers(_)
DumpMembers(o) ==
    IF o = <<>> THEN <<>>
    ELSE <<DQUOTE, o[1].key, DQUOTE, ":", " ">> \o DumpValue(o[1].value)
         \o (IF Len(o) > 1 THEN <<",", " ">> ELSE <<>>)
         \o DumpMembers(Tail(o))

\* json.dumps(obj): the object as the characters of its JSON text
JsonDumps(o) == <<"{">> \o DumpMembers(o) \o <<"}">>

\* one {name, arguments} entry of a block, arguments being a JSON object
Call(name, arguments) == [name |-> name, arguments |-> arguments]

Word(w) == [kind |-> "prose", text |-> w, calls |-> <<>>, wellformed |-> TRUE]

Space == [kind |-> "space", text |-> " ", calls |-> <<>>, wellformed |-> TRUE]

\* a block of one convention: the entries it spells out, and whether its
\* payload parses
Block(conv, calls, wellformed) ==
    [kind |-> conv, text |-> "", calls |-> calls, wellformed |-> wellformed]

\* the four conventions in the order their detectors are tried: an inline
\* {"tool_calls": [...]} object, <function_calls> holding a <function=name>
\* tag, <function_calls> holding <invoke> blocks, and functools[...]
Conventions == <<"inline_json", "legacy_tag", "structured_tag", "bracketed_list">>

\* whether the detector of a convention finds its block in the text.  The
\* inline-JSON detector looks for a syntactically valid JSON object; the
\* others look for their markers
Triggers(conv, p) ==
    /\ p.kind = conv
    /\ conv = "inline_json" => p.wellformed

Detects(conv, text) == \E i \in 1..Len(text) : Triggers(conv, text[i])

\* the position of the block a detector matches: the first one
MatchedAt(conv, text) ==
    CHOOSE i \in 1..Len(text) :
        /\ Triggers(conv, text[i])
        /\ \A j \in 1..(i - 1) : ~Triggers(conv, text[j])

\* the text without the piece at position i
Without(text, i) == SubSeq(text, 1, i - 1) \o SubSeq(text, i + 1, Len(text))

\* ToolCall(id=..., function=FunctionCall(name=..., arguments=...)):
\* type defaults to "function"
ToolCall(id, name, arguments) ==
    [id |-> id, type |-> "function",
     function |-> [name |-> name, arguments |-> arguments]]

\* values os.urandom gives for the id of a tool call
CallIds == {"call_1", "call_2"}

\* the tool calls listed last entry first
ToolCalls_reversed(calls, ids) ==
    [j \in 1..Len(calls) |->
        ToolCall(ids[j], calls[Len(calls) + 1 - j].name,
                 JsonDumps(calls[Len(calls) + 1 - j].arguments))]

\* the ToolCalls built from the entries of the matched block, entry by entry
ToolCalls(calls, ids) ==
    [j \in 1..Len(calls) |->
        ToolCall(ids[j], calls[j].name, JsonDumps(calls[j].arguments))]

\* a parse error that is not caught
OnParseError_raising(text) ==
    [content |-> text, tool_calls |-> <<>>, exc |-> "JSONDecodeError"]

\* the payload of the matched block does not parse: the text is prose
OnParseError(text) == [content |-> text, tool_calls |-> <<>>, exc |-> NoException]

\* what the detector of one convention makes of the text it matched
Extracted(conv, text, ids) ==
    LET i == MatchedAt(conv, text)
        b == text[i]
    IN IF ~b.wellformed
       THEN OnParseError(text)
       ELSE [content |-> strip(Without(text, i), Space),
             tool_calls |-> ToolCalls(b.calls, ids),
             exc |-> NoException]

\* every block of every convention extracted into one response
RECURSIVE handle_function_calls_combined(_, _)
handle_function_calls_combined(output, ids) ==
    IF \A i \in 1..Len(output) : output[i].kind \in {"prose", "space"}
    THEN [content |-> strip(output, Space), tool_calls |-> <<>>, exc |-> NoException]
    ELSE LET i == CHOOSE k \in 1..Len(output) :
                     /\ output[k].kind \notin {"prose", "space"}
                     /\ \A j \in 1..(k - 1) : output[j].kind \in {"prose", "space"}
             rest == handle_function_calls_combined(Without(output, i), ids)
         IN [rest EXCEPT !.tool_calls =
                 ToolCalls(output[i].calls, ids) \o @]

\* handle_function_calls(output, request): the detectors in their order, the
\* first that matches deciding the result; content is the cleaned text
handle_function_calls(output, ids) ==
    IF Detects(Conventions[1], output) THEN Extracted(Conventions[1], output, ids)
    ELSE IF Detects(Conventions[2], output) THEN Extracted(Conventions[2], output, ids)
    ELSE IF Detects(Conventions[3], output) THEN Extracted(Conventions[3], output, ids)
    ELSE IF Detects(Conventions[4], output) THEN Extracted(Conventions[4], output, ids)
    ELSE [content |-> strip(output, Space), tool_calls |-> <<>>, exc |-> NoException]

\* the entries the generated texts spell out
GetWeather ==
    Call("get_weather", <<Member("location", "New York", TRUE),
                          Member("date", "2023-08-15", TRUE)>>)

GetStockPrice == Call("get_stock_price", <<Member("symbol", "AAPL", TRUE)>>)

SearchDatabase ==
    Call("search_database", <<Member("query", "latest smartphones", TRUE),
                              Member("limit", "5", TRUE)>>)

GetCurrentWeather ==
    Call("get_current_weather", <<Member("location", "San Francisco, CA", TRUE),
                                  Member("days", "3", FALSE)>>)

GetTime == Call("get_time", <<Member("timezone", "EST", TRUE)>>)

\* the pieces generated texts are made of
Pieces ==
    { Word("Here are the results:"),
      Space,
      Block("inline_json", <<GetWeather>>, TRUE),
      Block("inline_json", <<GetWeather>>, FALSE),
      Block("legacy_tag", <<GetStockPrice>>, TRUE),
      Block("legacy_tag", <<GetStockPrice>>, FALSE),
      Block("structured_tag", <<SearchDatabase>>, TRUE),
      Block("bracketed_list", <<GetCurrentWeather, GetTime>>, TRUE),
      Block("bracketed_list", <<GetCurrentWeather>>, FALSE) }

\* the texts the generation engine returns
Outputs == UNION {[1..n -> Pieces] : n \in 0..MaxPieces}

\* a text without any block
PlainOutput == <<Word("Here are the results:")>>

\* how many ids the extractor may draw for a text: one per entry of a block
MostCalls(text) ==
    LET S == {Len(text[i].calls) : i \in 1..Len(text)} \cup {0}
    IN CHOOSE m \in S : \A k \in S : k <= m

----------------------------------------------------------------------------
(* The generation handlers.                                                *)

GenOutcomes == {"ok", "fails"}

\* the handler answers r without opening a stream
Answer(r) == last' = r /\ UNCHANGED stream

\* the non-streamed tail returning the generated text as it is
Generate_raw(r, gen, output) ==
    IF gen = "fails"
    THEN Answer(Unhandled([r EXCEPT !.generated = TRUE], "GenerationError"))
    ELSE Answer([r EXCEPT !.generated = TRUE, !.output = output, !.content = output])

\* the non-streamed tail of chat_completion: generate, then
\* handle_function_calls(output, request)
Generate(r, gen, output) ==
    IF gen = "fails"
    THEN Answer(Unhandled([r EXCEPT !.generated = TRUE], "GenerationError"))
    ELSE \E ids \in [1..MostCalls(output) -> CallIds] :
            LET res == handle_function_calls(output, ids)
                r2 == [r EXCEPT !.generated = TRUE, !.extracted = TRUE,
                                !.output = output]
            IN IF res.exc # NoException
               THEN Answer(Unhandled(r2, res.exc))
               ELSE Answer([r2 EXCEPT !.content = res.content,
                                      !.tool_calls = res.tool_calls])

\* the streamed tail of chat_completion: return StreamingResponse(generator)
Streamed(r, model_name, bundle) ==
    /\ last' = [r EXCEPT !.streaming = TRUE]
    /\ stream' = OpenStream(model_name, bundle)

\* model_data[key] for each of the keys, in the response r: a key the bundle
\* does not hold raises KeyError
ReadKeys(r, bundle, keys) ==
    IF keys \subseteq BundleKeys(bundle.kind)
    THEN [r EXCEPT !.reads = @ \cup keys]
    ELSE Unhandled([r EXCEPT !.reads = @ \cup keys], "KeyError")

\* the vision-language branch of chat_completion
vlm_branch(r0, model_name, bundle, streamFlag, msgs, output) ==
    LET r == ReadKeys([r0 EXCEPT !.path = "vlm"], bundle,
                      {"processor", "image_processor"})
        scan == ScanMessages(msgs, [image_url |-> None, chat_messages |-> <<>>,
                                    exc |-> NoException])
    IN IF r.exc # NoException
       THEN Answer(r)
       ELSE IF scan.exc # NoException
       THEN Answer(Unhandled(r, scan.exc))
       ELSE IF Falsy(scan.image_url)
       THEN Answer(HTTPException(r, 400, <<"Image URL not provided for VLM model">>))
       ELSE LET r2 == [r EXCEPT !.templated = bundle.model_type # "paligemma"]
            IN IF streamFlag
               THEN Streamed(r2, model_name, bundle)
               ELSE \E gen \in GenOutcomes : Generate(r2, gen, output)

\* the plain-language-model branch of chat_completion
lm_branch(r0, model_name, bundle, streamFlag, msgs, output) ==
    \E tools \in BOOLEAN :
    \E user_role \in (IF ToolPromptSynthesized(model_name, msgs, tools)
                      THEN BOOLEAN ELSE {FALSE}) :
        LET r == [r0 EXCEPT !.path = "lm"]
            tm == ToolMessages(model_name, msgs, tools, user_role)
            rk == ReadKeys(r, bundle, {"tokenizer"})
        IN IF tm.exc # NoException
           THEN Answer(Unhandled(r, tm.exc))
           ELSE IF rk.exc # NoException
           THEN Answer(rk)
           ELSE LET r2 == [rk EXCEPT !.templated = TRUE]
                IN IF streamFlag
                   THEN Streamed(r2, model_name, bundle)
                   ELSE \E gen \in GenOutcomes : Generate(r2, gen, output)

\* a handler classifying the config's model type without remapping it
RoutesToVlm_unmapped(bundle) == bundle.model_type \in MODELS_vlm

\* lines 127 and 130: whether the handler takes the vision-language branch
\* for the bundle load_model returned
RoutesToVlm(bundle) == Remap(bundle.model_type) \in MODELS_vlm

\* POST /v1/chat/completions
chat_completion(model_name, outcome, streamFlag, msgs, output) ==
    /\ MayLoad(model_name)
    /\ LET r0 == [Response("chat_completion", model_name, model_name, 200, NoDetail)
                     EXCEPT !.image_ref = HasImagePart(msgs)] IN
       IF ~MLX_AVAILABLE
       THEN /\ Answer(HTTPException(r0, 500, <<"MLX library not available">>))
            /\ UNCHANGED <<models, lock, loads, live, released, tasks, running, prompt>>
       ELSE LET ld == load_model(models, loads, model_name, outcome)
                rl == WithLoad(r0, ld, outcome)
                r == IF ld.exc = NoException
                     THEN ReadKeys(rl, ld.ret, {"model", "config"}) ELSE rl
            IN /\ Provider(ld, model_name)
               /\ IF r.exc # NoException \/ ld.exc # NoException
                  THEN Answer(IF ld.exc # NoException THEN Unhandled(r, ld.exc) ELSE r)
                  ELSE IF RoutesToVlm(ld.ret)
                       THEN vlm_branch(r, model_name, ld.ret, streamFlag, msgs, output)
                       ELSE lm_branch(r, model_name, ld.ret, streamFlag, msgs, output)

\* POST /v1/embeddings
create_embedding(model_name, outcome) ==
    /\ MayLoad(model_name)
    /\ LET ld == load_model(models, loads, model_name, outcome)
           r == WithLoad(Response("create_embedding", model_name, model_name, 200,
                                  NoDetail), ld, outcome)
       IN /\ Provider(ld, model_name)
          /\ Answer(IF ld.exc # NoException THEN Unhandled(r, ld.exc)
                    ELSE [r EXCEPT !.generated = TRUE])

----------------------------------------------------------------------------
(* The registry calls step by step.  A call is a task of the event loop;   *)
(* the loop runs one task at a time, and a running task gives the loop up  *)
(* only where it suspends: at `async with self.lock` when the lock is      *)
(* held, and when it returns.  load_model is a plain method called without *)
(* await, so the loop runs nothing else from its membership test to its    *)
(* return.                                                                 *)

TaskIds == 1..MaxTasks

IdleTask ==
    [op |-> "none", name |-> NoName, pc |-> "idle", snapshot |-> <<>>, removed |-> FALSE]

\* the names the registry calls in flight are about
TaskNames == {<<"a">>, <<"b">>}

TaskOps == {"acquire", "release", "list"}

\* a task that is not the loop's to run: threads scheduled preemptively
MayRun_threads(t) == TRUE

\* whether the event loop can run the next step of task t: it is running t,
\* or it is running nothing and picks t
MayRun(t) == running = t \/ running = 0

\* a request arrives: its handler becomes a task, ready to run
arrive(t, op, name) ==
    /\ tasks[t].pc = "idle"
    /\ tasks' = [tasks EXCEPT ![t] = [IdleTask EXCEPT !.op = op, !.name = name,
                                                      !.pc = "ready"]]
    /\ UNCHANGED <<models, lock, loads, last, stream, live, released, running, prompt>>

\* the task returns: the loop is free again
Returned(t) ==
    /\ tasks' = [tasks EXCEPT ![t] = IdleTask]
    /\ running' = 0

\* the bundle the loader builds
Loaded(calls, name) ==
    [serial |-> calls + 1,
     kind |-> LoaderKind(ConfigModelType(name)),
     model_type |-> ConfigModelType(name)]

\* load_model, line 54: the membership test; on a hit line 63 returns the
\* cached bundle, on a miss the loader starts
acquire_test(t) ==
    /\ tasks[t].op = "acquire" /\ tasks[t].pc = "ready"
    /\ MayRun(t)
    /\ MayLoad(tasks[t].name)
    /\ IF Has(models, tasks[t].name)
       THEN Returned(t)
       ELSE /\ tasks' = [tasks EXCEPT ![t].pc = "loading"]
            /\ running' = t
    /\ UNCHANGED <<models, lock, loads, last, stream, live, released, prompt>>

\* load_model, lines 55 to 63: the loader returns and its bundle is stored
\* under the name, or the loader raises
acquire_store(t, outcome) ==
    /\ tasks[t].op = "acquire" /\ tasks[t].pc = "loading"
    /\ MayRun(t)
    /\ IF outcome = "ok"
       THEN /\ models' = DictSet(models, tasks[t].name, Loaded(loads, tasks[t].name))
            /\ loads' = loads + 1
       ELSE UNCHANGED <<models, loads>>
    /\ Returned(t)
    /\ UNCHANGED <<lock, last, stream, live, released, prompt>>

\* `async with self.lock`, entering: the lock is taken when it is free;
\* otherwise the task suspends until it is
lock_enter(t) ==
    /\ tasks[t].op \in {"release", "list"}
    /\ tasks[t].pc \in {"ready", "waiting"}
    /\ tasks[t].pc = "waiting" => ~lock
    /\ MayRun(t)
    /\ IF lock
       THEN /\ tasks' = [tasks EXCEPT ![t].pc = "waiting"]
            /\ running' = IF running = t THEN 0 ELSE running
            /\ lock' = lock
       ELSE /\ tasks' = [tasks EXCEPT ![t].pc = "locked"]
            /\ running' = t
            /\ lock' = TRUE
    /\ UNCHANGED <<models, loads, last, stream, live, released, prompt>>

\* remove_model, lines 69 to 72, under the lock
release_body(t) ==
    /\ tasks[t].op = "release" /\ tasks[t].pc = "locked"
    /\ MayRun(t)
    /\ LET rm == remove_model(models, tasks[t].name)
       IN /\ models' = rm.models
          /\ tasks' = [tasks EXCEPT ![t].removed = rm.ret, ![t].pc = "leaving"]
    /\ running' = t
    /\ UNCHANGED <<lock, loads, last, stream, live, released, prompt>>

\* get_available_models, line 76, under the lock
list_body(t) ==
    /\ tasks[t].op = "list" /\ tasks[t].pc = "locked"
    /\ MayRun(t)
    /\ tasks' = [tasks EXCEPT ![t].snapshot = get_available_models(models),
                              ![t].pc = "leaving"]
    /\ running' = t
    /\ UNCHANGED <<models, lock, loads, last, stream, live, released, prompt>>

\* a lock that stays held when the block is left by the return of a
\* successful removal
lock_exit_leaking(t) ==
    /\ tasks[t].pc = "leaving"
    /\ MayRun(t)
    /\ lock' = tasks[t].removed
    /\ Returned(t)
    /\ UNCHANGED <<models, loads, last, stream, live, released, prompt>>

\* `async with self.lock`, leaving: the lock is given back on the way out of
\* the block, whichever return statement left it, and the task returns
lock_exit(t) ==
    /\ tasks[t].pc = "leaving"
    /\ MayRun(t)
    /\ lock' = FALSE
    /\ Returned(t)
    /\ UNCHANGED <<models, loads, last, stream, live, released, prompt>>

----------------------------------------------------------------------------
(* The system.                                                             *)

\* the model_name arguments DELETE /v1/models is called with
RawNames ==
    ModelNames \cup
    { <<DQUOTE, "a", DQUOTE>>,
      <<"%", "6", "1">>,
      <<"%", "2", "2", "b", "%", "2", "2">>,
      <<"%", "2", "5", "6", "3">> }

\* the loader's outcome is an input of a cache-miss load only
Outcomes(n) == IF Has(models, n) THEN {"ok"} ELSE LoaderOutcomes

Boot ==
    /\ models = <<>>
    /\ lock = FALSE
    /\ loads = 0
    /\ last = Response("none", NoName, NoName, 0, NoDetail)
    /\ stream = NoStream
    /\ live = {}
    /\ released = {}
    /\ tasks = [t \in TaskIds |-> IdleTask]
    /\ running = 0

\* the server after construction, no request looked at in particular
Init == Boot /\ prompt = NoPrompt

\* the handlers, each running from its first line to its return
Handlers ==
    \/ list_models
    \/ \E n \in ModelNames : \E o \in Outcomes(n) : add_model(n, o)
    \/ \E n \in RawNames : remove_model_handler(n)
    \/ \E n \in ModelNames : \E o \in Outcomes(n) : create_embedding(n, o)
    \/ \E n \in ModelNames : \E o \in Outcomes(n) : \E s \in BOOLEAN, m \in MessageLists :
          chat_completion(n, o, s, m, PlainOutput)

\* the transport pulling the generator of the streamed response
Pulls ==
    \/ stream_fragment
    \/ stream_finish
    \/ stream_failure
    \/ stream_disconnect

Next == Handlers \/ Pulls

\* the whole server
Spec == Init /\ [][Next]_vars

\* The handlers alone, every response delivered whole.  A streamed chat
\* completion goes through load_model as any other does, and a pull changes
\* nothing but `stream`, which no handler reads.
RegistryNext ==
    \/ list_models
    \/ \E n \in ModelNames : \E o \in Outcomes(n) : add_model(n, o)
    \/ \E n \in RawNames : remove_model_handler(n)
    \/ \E n \in ModelNames : \E o \in Outcomes(n) : create_embedding(n, o)
    \/ \E n \in ModelNames : \E o \in Outcomes(n) : \E m \in MessageLists :
          chat_completion(n, o, FALSE, m, PlainOutput)

RegistrySpec == Init /\ [][RegistryNext]_vars

\* Streamed chat completions alone.  No other handler touches `stream`.
StreamNext ==
    \/ \E n \in ModelNames : \E o \in Outcomes(n) : \E m \in MessageLists :
          chat_completion(n, o, TRUE, m, PlainOutput)
    \/ Pulls

StreamSpec == Init /\ [][StreamNext]_vars

\* The registry calls as tasks of the event loop.
TaskNext ==
    \/ \E t \in TaskIds, op \in TaskOps, n \in TaskNames : arrive(t, op, n)
    \/ \E t \in TaskIds : acquire_test(t)
    \/ \E t \in TaskIds, o \in LoaderOutcomes : acquire_store(t, o)
    \/ \E t \in TaskIds : lock_enter(t)
    \/ \E t \in TaskIds : release_body(t)
    \/ \E t \in TaskIds : list_body(t)
    \/ \E t \in TaskIds : lock_exit(t)

TaskSpec == Init /\ [][TaskNext]_vars

\* What the event loop guarantees.  A task that is ready to run is in the
\* loop's queue, which is served first in, first out: it is run however
\* often other tasks are run before it.  A task the loop is running goes on
\* to its next suspension; the loader, a plain call, is taken to return or
\* to raise.  Nothing obliges a request to arrive.
TaskFairness ==
    \A t \in TaskIds :
        /\ SF_vars(acquire_test(t))
        /\ WF_vars(\E o \in LoaderOutcomes : acquire_store(t, o))
        /\ SF_vars(lock_enter(t))
        /\ WF_vars(release_body(t))
        /\ WF_vars(list_body(t))
        /\ WF_vars(lock_exit(t))

\* The calls about one name: acquires, releases and lists of it in every
\* interleaving the loop allows.
FairNext ==
    \/ \E t \in TaskIds, op \in TaskOps : arrive(t, op, <<"a">>)
    \/ \E t \in TaskIds : acquire_test(t)
    \/ \E t \in TaskIds, o \in LoaderOutcomes : acquire_store(t, o)
    \/ \E t \in TaskIds : lock_enter(t)
    \/ \E t \in TaskIds : release_body(t)
    \/ \E t \in TaskIds : list_body(t)
    \/ \E t \in TaskIds : lock_exit(t)

\* The registry calls as tasks of the event loop, the loop serving them.
TaskFairSpec == Init /\ [][FairNext]_vars /\ TaskFairness

\* the message lists of the requests whose generated text is examined
ExtractMessages ==
    { <<ChatMessage("user", StrContent("Hello"))>>,
      <<ChatMessage("user", ListContent(<<TextPart("What"),
                                          ImagePart(Dict({"url"}, "http://img"))>>))>> }

\* The first request of a fresh server, a non-streamed chat completion on
\* either path, the generation engine returning any of the texts.
ExtractNext ==
    /\ models = <<>>
    /\ \E n \in {<<"a">>, <<"c">>}, m \in ExtractMessages, out \in Outputs :
          chat_completion(n, "ok", FALSE, m, out)

ExtractSpec == Init /\ [][ExtractNext]_vars

\* the messages of the requests taken to the tool branch
PromptMessages ==
    { ChatMessage("system", StrContent("Be brief")),
      ChatMessage("user", StrContent("Hello")),
      ChatMessage("assistant", StrContent("Hi")) }

\* The tool branch of the plain-LM path, applied to one request: any list of
\* up to MaxMessages messages, for a model on the exclusion list or not,
\* with tools declared or not.
PromptInit ==
    /\ Boot
    /\ prompt \in {PromptRequest(n, m, tools) :
                      n \in {<<"b">>, <<"c">>, <<"firefunction-v2">>},
                      m \in UNION {[1..k -> PromptMessages] : k \in 0..MaxMessages},
                      tools \in BOOLEAN}

PromptSpec == PromptInit /\ [][tool_branch]_vars

\* the texts the engine returns to the requests below
ChatOutputs ==
    { PlainOutput,
      <<Word("Here are the results:"), Space,
        Block("bracketed_list", <<GetCurrentWeather, GetTime>>, TRUE)>> }

\* Chat completions, streamed and not, on both paths, and the delivery of
\* the streamed ones.
ChatNext ==
    \/ \E n \in {<<"a">>, <<"c">>}, s \in BOOLEAN, m \in ExtractMessages,
           out \in ChatOutputs :
          chat_completion(n, "ok", s, m, out)
    \/ Pulls

ChatSpec == Init /\ [][ChatNext]_vars

\* the models whose kinds are compared: a vision-language type, an
\* embeddings type, two aliases of one vision-language type, and a type that
\* is on no list
RouteNames == {<<"a">>, <<"b">>, <<"d">>, <<"e">>, <<"f">>}

\* Chat completions for models of every kind, and releases, so that a name
\* is classified again when it is loaded again.
RouteNext ==
    \/ \E n \in RouteNames, m \in ExtractMessages :
          chat_completion(n, "ok", FALSE, m, PlainOutput)
    \/ \E n \in RouteNames : remove_model_handler(n)

RouteSpec == Init /\ [][RouteNext]_vars

\* the models released and loaded again while their streams are delivered
ReleaseNames == {<<"a">>, <<"c">>}

\* the messages of their requests: a question about an image
ReleaseMessages ==
    <<ChatMessage("user", ListContent(<<TextPart("What"),
                                        ImagePart(Dict({"url"}, "http://img"))>>))>>

\* Chat completions, streamed and not, the delivery of the streamed ones,
\* and releases arriving in between.
ReleaseNext ==
    \/ \E n \in ReleaseNames, s \in BOOLEAN :
          chat_completion(n, "ok", s, ReleaseMessages, PlainOutput)
    \/ \E n \in ReleaseNames : remove_model_handler(n)
    \/ Pulls

ReleaseSpec == Init /\ [][ReleaseNext]_vars

----------------------------------------------------------------------------
(* The registry: claims C1 to C7.                                          *)

AcquireOps == {"add_model", "create_embedding", "chat_completion"}

LoaderFailures == {"config_fails", "loader_fails"}

SeqToSet(s) == {s[i] : i \in 1..Len(s)}

\* C1: list() never reports the same name twice, and every name acquired
\* (any number of times) and not released since has exactly one entry.
RegistryUniqueness ==
    /\ NoDuplicates(get_available_models(models))
    /\ last.op = "list_models" => NoDuplicates(last.listing)
    /\ \A n \in live : Count(models, n) = 1

\* C1 witness: an acquire of a cached name has completed (so at least two
\* acquires of that name have, with no release between) beside another entry.
RegistryUniquenessWitness ==
    /\ last.op \in AcquireOps
    /\ last.status = 200
    /\ last.loader = "not_called"
    /\ Count(models, last.name) = 1
    /\ Len(models) >= 2

\* C2: release of a name that is not cached returns False and leaves the
\* registry as it was; release of a cached name returns True; release of a
\* name released before and not acquired since returns False.
ReleaseTrueThenFalse ==
    [][ last'.op = "remove_model" =>
          /\ ~Has(models, last'.name) =>
                 /\ ~last'.removed
                 /\ models' = models
                 /\ loads' = loads
                 /\ lock' = lock
          /\ Has(models, last'.name) => last'.removed
          /\ last'.name \in released => ~last'.removed
          /\ (last.op = "remove_model" /\ last.name = last'.name /\ last.removed)
                 => ~last'.removed ]_vars

\* C2 witness: a release that returned False for a name whose previous
\* release returned True, other entries being cached.
ReleaseTrueThenFalseWitness ==
    /\ last.op = "remove_model"
    /\ ~last.removed
    /\ last.name \in released
    /\ models # <<>>

\* C3: an acquire of a cached name returns the cached bundle, does not invoke
\* the loader and leaves the registry as it was (so a repeated force-load
\* changes nothing).
AcquireCachedIsIdempotent ==
    [][ (last'.op \in AcquireOps /\ Has(models, last'.name)) =>
          /\ last'.bundle = Get(models, last'.name)
          /\ last'.loader = "not_called"
          /\ loads' = loads
          /\ models' = models ]_vars

\* C3 witness: a force-load answered from the cache.
AcquireCachedWitness ==
    /\ last.op = "add_model"
    /\ last.status = 200
    /\ last.loader = "not_called"
    /\ Has(models, last.name)
    /\ last.bundle = Get(models, last.name)
    /\ last.bundle.serial < loads

\* C4: when the loader fails, the failure leaves the handler as an exception
\* and the registry is as before the call, with no entry for the name.
LoaderFailureCachesNothing ==
    [][ last'.loader \in LoaderFailures =>
          /\ last'.exc = LoaderMessage(last'.loader)
          /\ last'.bundle = NoBundle
          /\ models' = models
          /\ ~Has(models', last'.name)
          /\ last'.name \notin SeqToSet(get_available_models(models')) ]_vars

\* C4 witness: a load that failed in the kind-specific loader while other
\* models were cached.
LoaderFailureWitness ==
    /\ last.loader = "loader_fails"
    /\ last.exc = LoaderMessage("loader_fails")
    /\ ~Has(models, last.name)
    /\ models # <<>>

\* C5: the names listed are exactly the names acquired and not released
\* since; an entry appears only by an acquire of its name and disappears, or
\* changes, only by a release of its name.
ListedIsLive ==
    [][ /\ KeySet(models') = live'
        /\ last'.op = "list_models" => SeqToSet(last'.listing) = live'
        /\ \A i \in 1..Len(models) :
              LET n == models[i].key IN
              IF last'.op = "remove_model" /\ last'.name = n
              THEN ~Has(models', n)
              ELSE Has(models', n) /\ Get(models', n) = models[i].value
        /\ \A i \in 1..Len(models') :
              LET n == models'[i].key IN
              ~Has(models, n) => (last'.op \in AcquireOps /\ last'.name = n) ]_vars

\* C5 witness: a listing taken after a release, two other entries remaining.
ListedIsLiveWitness ==
    /\ last.op = "list_models"
    /\ Len(last.listing) = 2
    /\ released # {}
    /\ SeqToSet(last.listing) = live

\* C6: DELETE answers 204 and the decoded name is no longer listed when it
\* was cached; 404 with its detail, changing nothing, when it was not.
DeleteAnswers ==
    [][ last'.op = "remove_model" =>
          LET n == strip(unquote(last'.arg), DQUOTE) IN
          IF Has(models, n)
          THEN /\ last'.status = 204
               /\ n \notin SeqToSet(get_available_models(models'))
          ELSE /\ last'.status = 404
               /\ last'.detail = <<"Model '", n, "' not found">>
               /\ models' = models ]_vars

\* C6 witness: a DELETE whose argument had to be decoded and unquoted
\* removed a model.
DeleteAnswersWitness ==
    /\ last.op = "remove_model"
    /\ last.status = 204
    /\ last.arg # last.name
    /\ last.name \in released

\* C7: a loader failure while a request is served ends in HTTP 500 whose
\* detail carries the loader's message.
LoaderFailureDetail ==
    last.loader \in LoaderFailures =>
        /\ last.status = 500
        /\ last.detail = <<LoaderMessage(last.loader)>>

----------------------------------------------------------------------------
(* The streamed response: claims C8 and C9.                                *)

\* the chunks among the events emitted so far
IsChunk(e) == e.line = "chunk"

ChunkOf(e) == e.chunk[1]

\* C8 as stated: a stream of K fragments that completed holds K+2 chunks
\* (a role announcement, the K fragments, a terminal chunk carrying the only
\* finish_reason) and then the sentinel.
StreamFramingKPlusTwo ==
    stream.state = "done" =>
        LET K == stream.pos
            out == stream.out
        IN /\ Len(out) = K + 3
           /\ out[K + 3] = DONE
           /\ \A i \in 1..(K + 2) : IsChunk(out[i])
           /\ \A i \in 1..(K + 1) : ChunkOf(out[i]).choices[1].finish_reason = Null
           /\ ChunkOf(out[K + 2]).choices[1].finish_reason # Null
           /\ \A i \in 1..K : ChunkOf(out[i + 1]).choices[1].delta.content = Fragment(i)

\* C8 amended: a stream of K fragments holds one chunk per fragment, in
\* fragment order, each with a role, the fragment as content and a null
\* finish_reason; once it completes the sentinel follows as the last event,
\* so K chunks precede it, none of them a role announcement or a terminal
\* chunk; a stream that did not complete holds no sentinel.
StreamFraming ==
    LET K == stream.pos
        out == stream.out
    IN /\ stream.state = "done" => (Len(out) = K + 1 /\ out[K + 1] = DONE)
       /\ stream.state # "done" => Len(out) = K
       /\ \A i \in 1..K :
             /\ IsChunk(out[i])
             /\ ChunkOf(out[i]).choices[1].delta.content = Fragment(i)
             /\ ChunkOf(out[i]).choices[1].delta.role = "assistant"
             /\ ChunkOf(out[i]).choices[1].finish_reason = Null
       /\ \A i \in 1..Len(out) : out[i] = DONE => i = Len(out)

\* C8 witness: a stream of two fragments has completed.
StreamFramingWitness ==
    /\ stream.state = "done"
    /\ stream.pos = 2
    /\ stream.out[Len(stream.out)] = DONE

\* C9: every chunk of a stream carries the id and the created timestamp
\* assigned once when the stream started, the model of the request, and
\* exactly one choice, with index 0.
StreamIdentity ==
    /\ \A i \in 1..Len(stream.out) :
          IsChunk(stream.out[i]) =>
              LET c == ChunkOf(stream.out[i]) IN
              /\ c.id = stream.id
              /\ c.id \in RandomIds
              /\ c.created = stream.created
              /\ c.created \in Times
              /\ c.model = stream.model
              /\ Len(c.choices) = 1
              /\ c.choices[1].index = 0
    /\ \A i, j \in 1..Len(stream.out) :
          (IsChunk(stream.out[i]) /\ IsChunk(stream.out[j])) =>
              /\ ChunkOf(stream.out[i]).id = ChunkOf(stream.out[j]).id
              /\ ChunkOf(stream.out[i]).created = ChunkOf(stream.out[j]).created
    /\ last.streaming => stream.model = last.arg

\* C9 witness: the stream of the last request has delivered two chunks and
\* the sentinel.
StreamIdentityWitness ==
    /\ last.streaming
    /\ stream.state = "done"
    /\ stream.pos >= 2
    /\ IsChunk(stream.out[1]) /\ IsChunk(stream.out[2])

\* the only way a stream that has ended gives way: a later request opens
\* its own stream, from the start
Superseded ==
    /\ last'.streaming
    /\ stream' = OpenStream(last'.arg, last'.bundle)

\* C15: when generation fails after the stream has started, nothing is
\* emitted by the failure or after it: what was delivered holds no [DONE],
\* none follows, and the stream neither resumes nor starts over.
FailedStreamHasNoSentinel ==
    [][ /\ (stream.state = "open" /\ stream'.state = "failed") =>
              /\ stream'.out = stream.out
              /\ stream'.pos = stream.pos
              /\ DONE \notin SeqToSet(stream'.out)
        /\ stream.state = "failed" => (stream' = stream \/ Superseded) ]_vars

\* C15 witness: a stream failed after it had delivered a chunk.
FailedStreamHasNoSentinelWitness ==
    /\ stream.state = "failed"
    /\ stream.pos >= 1
    /\ IsChunk(stream.out[1])
    /\ DONE \notin SeqToSet(stream.out)

\* C16: when the consumer disconnects in the middle of a stream, no event is
\* emitted from then on, the engine has produced exactly the fragments that
\* were delivered (none is produced ahead and buffered), and the stream
\* neither resumes nor starts over.
DisconnectStopsStream ==
    [][ /\ (stream.state = "open" /\ stream'.state = "cancelled") =>
              /\ stream'.out = stream.out
              /\ stream'.pos = stream.pos
        /\ stream'.state = "cancelled" =>
              /\ Len(stream'.out) = stream'.pos
              /\ \A i \in 1..Len(stream'.out) : IsChunk(stream'.out[i])
        /\ stream.state = "cancelled" => (stream' = stream \/ Superseded) ]_vars

\* C16 witness: the consumer left after one chunk of a longer stream.
DisconnectStopsStreamWitness ==
    /\ stream.state = "cancelled"
    /\ stream.pos = 1
    /\ stream.pos < MaxFrags
    /\ Len(stream.out) = 1

----------------------------------------------------------------------------
(* The chat-completion handler: claim C10.                                 *)

\* C10: a request routed to the vision-language branch whose messages hold no
\* image part is answered 400 "Image URL not provided for VLM model", and
\* neither templating nor generation is started for it.
VlmWithoutImageIsClientError ==
    (/\ last.op = "chat_completion"
     /\ Remap(last.bundle.model_type) \in MODELS_vlm
     /\ ~last.image_ref)
    => /\ last.status = 400
       /\ last.detail = <<"Image URL not provided for VLM model">>
       /\ ~last.templated
       /\ ~last.generated
       /\ ~last.streaming
----------------------------------------------------------------------------
(* The tool-call extractor: claims C11 to C13.                             *)

\* json.loads of the text of a flat object
RECURSIVE LoadMembers(_)
LoadMembers(s) ==
    IF s = <<>> \/ s = <<"}">> THEN <<>>
    ELSE LET isStr == s[6] = DQUOTE
             val == IF isStr THEN s[7] ELSE s[6]
             rest == SubSeq(s, IF isStr THEN 9 ELSE 7, Len(s))
             more == IF rest # <<>> /\ rest[1] = ","
                     THEN SubSeq(rest, 3, Len(rest)) ELSE rest
         IN <<Member(s[2], val, isStr)>> \o LoadMembers(more)

JsonLoads(s) == LoadMembers(Tail(s))

\* the response of a request whose generated text went through the extractor
Extracting == last.op = "chat_completion" /\ last.extracted

\* the conventions whose detector matches in the text, as positions in the order
Present(text) ==
    {k \in 1..Len(Conventions) :
        \E i \in 1..Len(text) :
            /\ text[i].kind = Conventions[k]
            /\ (k = 1 => text[i].wellformed)}

\* the first of them
Winner(text) == CHOOSE k \in Present(text) : \A j \in Present(text) : k <= j

\* the block the winning detector matched
WinningBlock(text) ==
    LET k == Winner(text)
        at == {i \in 1..Len(text) :
                  text[i].kind = Conventions[k] /\ (k = 1 => text[i].wellformed)}
    IN text[CHOOSE i \in at : \A j \in at : i <= j]

\* the names a convention's blocks of the text spell out
NamesOf(text, k) ==
    UNION {{text[i].calls[j].name : j \in 1..Len(text[i].calls)} :
              i \in {h \in 1..Len(text) : text[h].kind = Conventions[k]}}

Occurrences(text, p) == Cardinality({i \in 1..Len(text) : text[i] = p})

\* C11: the detectors are tried in the order inline-JSON, legacy-tag,
\* structured-tag, bracketed-list; the tool calls of a response all come from
\* the first convention whose trigger matches, the blocks of every other
\* convention staying in the text; when no convention matches the text comes
\* back unchanged up to trimming, with no tool call.
ExtractorFirstMatchWins ==
    (Extracting /\ last.exc = NoException) =>
        LET text == last.output IN
        IF Present(text) = {}
        THEN /\ last.tool_calls = <<>>
             /\ strip(last.content, Space) = strip(text, Space)
        ELSE LET k == Winner(text) IN
             /\ \A j \in 1..Len(last.tool_calls) :
                   last.tool_calls[j].function.name \in NamesOf(text, k)
             /\ WinningBlock(text).wellformed =>
                   Len(last.tool_calls) = Len(WinningBlock(text).calls)
             /\ \A i \in 1..Len(text) :
                   text[i].kind # Conventions[k] =>
                       Occurrences(last.content, text[i]) >= 1
                       \/ text[i] = Space

\* C11 witness: a text holding blocks of two conventions gave the calls of
\* the earlier convention, the later block being the first in the text.
ExtractorFirstMatchWinsWitness ==
    /\ Extracting
    /\ Cardinality(Present(last.output)) >= 2
    /\ last.output[1].kind = "bracketed_list"
    /\ last.tool_calls # <<>>
    /\ last.tool_calls[1].function.name = "get_stock_price"

\* C12: the extractor never fails the request: the answer is 200 with a text
\* and a list of well-formed tool calls; when the payload of the matched
\* block does not parse, the raw text is the content and there is no call.
ExtractorNeverFails ==
    Extracting =>
        /\ last.exc = NoException
        /\ last.status = 200
        /\ \A j \in 1..Len(last.tool_calls) :
              /\ last.tool_calls[j].type = "function"
              /\ last.tool_calls[j].id \in CallIds
        /\ (Present(last.output) # {} /\ ~WinningBlock(last.output).wellformed) =>
              /\ last.content = last.output
              /\ last.tool_calls = <<>>

\* C12 witness: the matched block was a legacy-tag block whose payload does
\* not parse, a well-formed block of a later convention following it.
ExtractorNeverFailsWitness ==
    /\ Extracting
    /\ last.status = 200
    /\ Present(last.output) # {}
    /\ Winner(last.output) = 2
    /\ ~WinningBlock(last.output).wellformed
    /\ 4 \in Present(last.output)
    /\ last.content = last.output

\* C13: when the matched block is a bracketed list of n entries, the response
\* holds n tool calls in the order of the entries, each with the name of its
\* entry and the entry's arguments encoded as a JSON string, and the matched
\* block is gone from the cleaned text.
ToolCallsInSourceOrder ==
    (/\ Extracting
     /\ Present(last.output) # {}
     /\ Winner(last.output) = 4
     /\ WinningBlock(last.output).wellformed) =>
        LET b == WinningBlock(last.output)
            n == Len(b.calls)
        IN /\ Len(last.tool_calls) = n
           /\ \A j \in 1..n :
                 /\ last.tool_calls[j].function.name = b.calls[j].name
                 /\ last.tool_calls[j].function.arguments = JsonDumps(b.calls[j].arguments)
                 /\ last.tool_calls[j].function.arguments[1] = "{"
                 /\ JsonLoads(last.tool_calls[j].function.arguments) = b.calls[j].arguments
           /\ Occurrences(last.content, b) = Occurrences(last.output, b) - 1

\* C13 witness: a bracketed list of two entries between prose gave two tool
\* calls, get_current_weather before get_time.
ToolCallsInSourceOrderWitness ==
    /\ Extracting
    /\ Len(last.output) = 3
    /\ last.output[1].kind = "prose"
    /\ last.output[2].kind = "bracketed_list"
    /\ Len(last.tool_calls) = 2
    /\ last.tool_calls[1].function.name = "get_current_weather"
    /\ last.tool_calls[2].function.name = "get_time"
    /\ last.content = <<last.output[1]>>
----------------------------------------------------------------------------
(* The chat-completion handler: claim C19.                                 *)

\* C19: the extractor runs exactly for the requests answered without
\* streaming, on the text of a generation that has completed; a streamed
\* request is answered with a stream on which nothing has been generated or
\* emitted yet, its text never goes through the extractor, and the delivery
\* of its fragments changes nothing in the response.
ExtractionOnlyWhenNotStreamed ==
    [][ /\ last'.op = "chat_completion" =>
              /\ last'.extracted =>
                    (~last'.streaming /\ last'.generated /\ last'.exc = NoException)
              /\ (last'.generated /\ last'.exc = NoException) =>
                    (last'.extracted /\ last'.status = 200)
              /\ (last'.status = 200 /\ ~last'.streaming) => last'.extracted
              /\ last'.streaming =>
                    /\ ~last'.extracted /\ ~last'.generated
                    /\ last'.output = <<>> /\ last'.tool_calls = <<>>
        /\ (last'.streaming /\ last' # last) =>
              /\ stream' = OpenStream(last'.arg, last'.bundle)
              /\ stream'.pos = 0 /\ stream'.out = <<>>
        /\ (last' # last /\ ~last'.streaming) => stream' = stream
        /\ (stream' # stream /\ stream'.out # <<>>) => last' = last ]_vars

\* C19 witness: a request answered without streaming had tool calls
\* extracted from its text while the stream of an earlier request, one chunk
\* delivered, was still open.
ExtractionOnlyWhenNotStreamedWitness ==
    /\ last.op = "chat_completion"
    /\ last.extracted /\ ~last.streaming
    /\ Len(last.tool_calls) = 2
    /\ stream.state = "open"
    /\ stream.pos >= 1

\* C20: at the tool branch the messages are modified only when the request
\* declares tools, the model is not excluded and no message of the request
\* is a system message; then exactly one modification is made, a system
\* message inserted at position 0 or the content of the final message
\* replaced; in every other case the messages reach the template unchanged.
ToolPromptModifiesOnce ==
    prompt.done =>
        LET msgs == prompt.messages
            out == prompt.chat_messages
            synthesizes ==
                /\ prompt.tools
                /\ \A i \in 1..Len(prompt.model) : prompt.model[i] # "firefunction-v2"
                /\ \A i \in 1..Len(msgs) : msgs[i].role # "system"
        IN /\ prompt.exc = NoException
           /\ IF synthesizes
              THEN \/ /\ Len(out) = Len(msgs) + 1
                      /\ out[1].role = "system"
                      /\ \A i \in 1..Len(msgs) : out[i + 1] = msgs[i]
                   \/ /\ Len(out) = Len(msgs) /\ Len(msgs) >= 1
                      /\ out[Len(out)].role = msgs[Len(msgs)].role
                      /\ out[Len(out)].content # msgs[Len(msgs)].content
                      /\ \A i \in 1..(Len(msgs) - 1) : out[i] = msgs[i]
              ELSE out = msgs

----------------------------------------------------------------------------
(* Concurrency of the registry: claims C14, C17 and C18.                   *)

\* task t is between the membership test and the insertion of a cache miss
Loading(t) == tasks[t].op = "acquire" /\ tasks[t].pc = "loading"

\* task t is an acquire that has arrived and not run yet
AcquireReady(t) == tasks[t].op = "acquire" /\ tasks[t].pc = "ready"

\* task t is inside the block of `async with self.lock`
InCriticalSection(t) == tasks[t].pc \in {"locked", "leaving"}

\* C14: while an acquire is performing its cache-miss load, an acquire of
\* another name that has arrived can start.
AcquireOthersDuringLoad ==
    \A t, u \in TaskIds :
        (Loading(t) /\ AcquireReady(u) /\ tasks[u].name # tasks[t].name)
            => ENABLED acquire_test(u)

CriticalSectionsExclusive ==
    [][ /\ \A t, u \in TaskIds :
              (InCriticalSection(t) /\ InCriticalSection(u)) => t = u
        /\ lock <=> \E t \in TaskIds : InCriticalSection(t)
        /\ \A t \in TaskIds :
              InCriticalSection(t) =>
                  /\ tasks[t].op \in {"release", "list"}
                  /\ tasks'[t] = tasks[t] => models' = models
                  /\ (tasks[t].op = "list" /\ tasks[t].pc = "leaving") =>
                        tasks[t].snapshot = get_available_models(models) ]_vars

\* C18 witness: a list is leaving its critical section with a snapshot of two
\* names while a release and nothing else is waiting to run.
CriticalSectionsExclusiveWitness ==
    \E t, u \in TaskIds :
        /\ tasks[t].op = "list" /\ tasks[t].pc = "leaving"
        /\ Len(tasks[t].snapshot) = 2
        /\ tasks[u].op = "release" /\ tasks[u].pc = "ready"
        /\ lock

----------------------------------------------------------------------------
(* Classification and routing: claim C21.                                  *)

\* the kind the specification gives a model type: the alias remapped first,
\* then the vision-language list, then the embeddings list, else plain
ClassifiedKind(t) ==
    LET canonical == IF t \in DOMAIN MODEL_REMAPPING THEN MODEL_REMAPPING[t] ELSE t
    IN IF canonical \in MODELS_vlm THEN "vlm"
       ELSE IF <<canonical, ".py">> \in MODELS_embeddings THEN "embeddings"
       ELSE "lm"

\* a model type that is no alias and is on neither list
UnknownType(t) ==
    /\ t \notin DOMAIN MODEL_REMAPPING
    /\ t \notin MODELS_vlm
    /\ <<t, ".py">> \notin MODELS_embeddings

\* C21: the kind of every cached bundle is the classification of its model
\* type (alias remapped first, then vision-language, then embeddings, else
\* plain, unknown types included), so equal types have equal kinds however
\* often they are loaded; and chat_completion takes the VLM branch exactly
\* for the bundles the vision-language loader produced, reading a processor
\* from those only and a tokenizer from the others only, no key missing.
ClassificationRoutes ==
    /\ \A i \in 1..Len(models) :
          /\ models[i].value.model_type = ConfigModelType(models[i].key)
          /\ models[i].value.kind = ClassifiedKind(models[i].value.model_type)
          /\ UnknownType(models[i].value.model_type) => models[i].value.kind = "lm"
    /\ \A i, j \in 1..Len(models) :
          Remap(models[i].value.model_type) = Remap(models[j].value.model_type)
              => models[i].value.kind = models[j].value.kind
    /\ (last.op = "chat_completion" /\ last.bundle # NoBundle) =>
          /\ last.bundle.kind = ClassifiedKind(last.bundle.model_type)
          /\ last.path = "vlm" <=> last.bundle.kind = "vlm"
          /\ last.path = "lm" <=> last.bundle.kind \in {"lm", "embeddings"}
          /\ "processor" \in last.reads => last.bundle.kind = "vlm"
          /\ "image_processor" \in last.reads => last.bundle.kind = "vlm"
          /\ "tokenizer" \in last.reads => last.bundle.kind # "vlm"
          /\ last.reads \subseteq BundleKeys(last.bundle.kind)
          /\ last.exc # "KeyError"

\* C21 witness: a model whose type is an alias of a vision-language type was
\* loaded as the third bundle and routed to the VLM branch, which read its
\* processor, beside a cached model of the other alias and one of a type on
\* no list, loaded as a plain language model.
ClassificationRoutesWitness ==
    /\ last.op = "chat_completion"
    /\ last.loader = "ok"
    /\ last.bundle.model_type = "llava-qwen2"
    /\ last.bundle.serial = 3
    /\ last.path = "vlm"
    /\ "processor" \in last.reads
    /\ last.status = 200
    /\ \E i, j \in 1..Len(models) :
          /\ models[i].value.model_type = "bunny-llama"
          /\ models[i].value.kind = "vlm"
          /\ models[j].value.model_type = "unknown_arch"
          /\ models[j].value.kind = "lm"

----------------------------------------------------------------------------
(* Acquisition before validation: claim C22.                               *)

\* C22: a chat completion rejected with 400 for its missing image has
\* acquired its model first: the model is cached afterwards, with the bundle
\* the request obtained; when it was not cached before, the loader ran, the
\* entry was added and the registry differs from what it was (the rejection
\* rolls nothing back); when it was cached, the registry is as before; and
\* nothing was templated or generated.
RejectedRequestKeepsModel ==
    [][ (last'.op = "chat_completion" /\ last'.status = 400) =>
          LET n == last'.name IN
          /\ last'.detail = <<"Image URL not provided for VLM model">>
          /\ Has(models', n)
          /\ Get(models', n) = last'.bundle
          /\ n \in SeqToSet(get_available_models(models'))
          /\ ~last'.templated /\ ~last'.generated /\ ~last'.streaming
          /\ IF Has(models, n)
             THEN /\ models' = models
                  /\ loads' = loads
                  /\ last'.loader = "not_called"
             ELSE /\ models' # models
                  /\ models' = Append(models, [key |-> n, value |-> last'.bundle])
                  /\ loads' = loads + 1
                  /\ last'.loader = "ok" ]_vars

\* C22 witness: the request that loaded a vision-language model, beside
\* another cached model, was rejected for its missing image, and the model
\* is cached.
RejectedRequestKeepsModelWitness ==
    /\ last.op = "chat_completion"
    /\ last.status = 400
    /\ last.loader = "ok"
    /\ ~last.image_ref
    /\ Has(models, last.name)
    /\ Get(models, last.name) = last.bundle
    /\ Len(models) >= 2

----------------------------------------------------------------------------
(* Release during a stream: claim C23.                                     *)

\* the bundle the stream works with is not the registry's entry for its
\* model any more: the entry was released after the stream was opened
Orphaned ==
    /\ stream.state # "idle"
    /\ ~Has(models, stream.model) \/ Get(models, stream.model) # stream.bundle

\* a handler step, which answers something new, as opposed to a pull
Answered(op) == last' # last /\ last'.op = op

\* C23 as stated: a stream whose model was released while it was being
\* delivered ends with a terminal chunk, the only one with a finish reason,
\* and then [DONE].
ReleasedStreamEndsWithTerminalChunk ==
    [][ (stream.state = "open" /\ Orphaned /\ stream'.state = "done") =>
          LET out == stream'.out
              n == Len(out)
          IN /\ n >= 2
             /\ out[n] = DONE
             /\ IsChunk(out[n - 1])
             /\ ChunkOf(out[n - 1]).choices[1].finish_reason # Null ]_vars

\* C23 amended: a release of X while a stream for X is being delivered
\* returns true and removes the entry, the stream being left as it is; the
\* stream goes on with the bundle it obtained, can still run to its end, and
\* then ends with [DONE] after its fragment chunks, none of them a terminal
\* chunk; an acquire of X after the release loads a new bundle, distinct
\* from the one the stream uses, both being alive while the map holds one
\* entry for X at most.
ReleaseLeavesStreamRunning ==
    [][ /\ (/\ Answered("remove_model")
            /\ stream.state = "open"
            /\ last'.name = stream.model
            /\ Has(models, stream.model)) =>
               /\ last'.removed
               /\ last'.status = 204
               /\ ~Has(models', stream.model)
               /\ stream' = stream
        /\ (stream.state = "open" /\ Orphaned) =>
               /\ ENABLED stream_finish
               /\ stream' # stream =>
                     \/ Superseded
                     \/ /\ stream'.bundle = stream.bundle
                        /\ stream'.model = stream.model
                        /\ stream'.state = "open" =>
                              /\ Len(stream'.out) = Len(stream.out) + 1
                              /\ IsChunk(stream'.out[Len(stream'.out)])
                              /\ ChunkOf(stream'.out[Len(stream'.out)]).model = stream.model
                        /\ stream'.state = "done" =>
                              /\ stream'.out = stream.out \o <<DONE>>
                              /\ \A i \in 1..Len(stream.out) :
                                    /\ IsChunk(stream.out[i])
                                    /\ ChunkOf(stream.out[i]).choices[1].finish_reason = Null
        /\ (/\ Answered("chat_completion")
            /\ stream.state = "open"
            /\ last'.name = stream.model
            /\ ~Has(models, stream.model)) =>
               /\ last'.loader = "ok"
               /\ last'.bundle.serial = loads + 1
               /\ last'.bundle # stream.bundle
               /\ Get(models', stream.model) = last'.bundle
               /\ ~last'.streaming => stream' = stream
        /\ \A n \in ModelNames : Count(models', n) <= 1 ]_vars

\* C23 witness: a stream that has delivered a chunk is still open while the
\* map holds, under the stream's model name, a bundle loaded later than the
\* one the stream uses: the name was released and acquired again meanwhile.
ReleaseLeavesStreamRunningWitness ==
    /\ stream.state = "open"
    /\ stream.pos >= 1
    /\ Orphaned
    /\ Has(models, stream.model)
    /\ Get(models, stream.model).serial > stream.bundle.serial
    /\ Count(models, stream.model) = 1
    /\ last.op = "chat_completion"
    /\ ~last.streaming
    /\ last.name = stream.model
    /\ last.loader = "ok"

----------------------------------------------------------------------------
(* Progress of the registry calls: claim C24.                              *)

\* task t is a release or a list that has arrived and not returned
Pending(t) == tasks[t].op \in {"release", "list"} /\ tasks[t].pc # "idle"

\* C24: every release and every list that has arrived returns; the lock,
\* once taken, is given back, also after a successful removal; the lock is
\* held only by the task the loop is running, never across a suspension, so
\* no call ever waits for it; an acquire loads without the lock and, ready
\* to run, can run whenever the loop is free.
RegistryCallsComplete ==
    /\ \A t \in TaskIds : Pending(t) ~> (tasks[t].pc = "idle")
    /\ lock ~> ~lock
    /\ [](lock => (running \in TaskIds /\ InCriticalSection(running)))
    /\ [](\A t \in TaskIds : tasks[t].pc # "waiting")
    /\ [](\A t \in TaskIds : Loading(t) => (~lock /\ running = t))
    /\ [](\A t \in TaskIds :
             (AcquireReady(t) /\ running = 0 /\ MayLoad(tasks[t].name))
                 => ENABLED acquire_test(t))

\* C24 witness: a release that removed its entry is about to leave its
\* critical section by the early return, the lock held, while a list has
\* arrived and is ready to run.
RegistryCallsCompleteWitness ==
    \E t, u \in TaskIds :
        /\ tasks[t].op = "release" /\ tasks[t].pc = "leaving"
        /\ tasks[t].removed
        /\ lock
        /\ tasks[u].op = "list" /\ tasks[u].pc = "ready"
====
